---------------------------- MODULE Spec2Model ----------------------------
(***************************************************************************)
(* A model of amidev's debug information index (amidev/debug/info.py):     *)
(* DebugInfo.fromFile builds Sections of Symbols and SourceLines from the  *)
(* hunks and stabs of an executable, Section.cleanup normalises them,      *)
(* DebugInfo.relocate moves them to the segments of the running program    *)
(* and ask_address / ask_symbol / ask_source_line query them.              *)
(*                                                                         *)
(* Python strings are sequences of one-character strings, so that slicing, *)
(* concatenation, comparison and parsing are computed, not assumed.        *)
(* Python objects that are shared by reference (Symbol) live in `heap` and *)
(* are named by their index; None, integers, objects and raised exceptions *)
(* are tagged records.                                                     *)
(***************************************************************************)
EXTENDS Integers, Sequences, FiniteSets, TLC

VARIABLES
    pc,        \* "new": DebugInfo() constructed; "loaded": fromFile returned;
               \* "failed": fromFile raised
    sections,  \* DebugInfo.sections
    heap,      \* the Symbol objects, by reference
    result,    \* the last call made on the DebugInfo and what it returned
    \* the debugger session of amidev/debug/debug.py and amidev/debug/uae.py
    task,        \* where the coroutine Debugger.run is suspended
    breakpoints, \* Debugger.breakpoints
    number,      \* the last number drawn from BreakPoint.unique_number
    regs,        \* Debugger.regs: the PC of the registers stored by prologue
    log,         \* the exception logged by Debugger.run ("" when none)
    stdin,       \* the requests written to the emulator and not yet answered
    stderr,      \* UaeProcess.stderr, the future of the next response
    stderr_buf,  \* UaeProcess._stderr, the output not yet handed over
    pump,        \* what pipe_data_received has raised ("" when nothing)
    emulator,    \* the emulator process and the futures that follow its exit
    last         \* the last step of the session, for the properties

vars == <<pc, sections, heap, result>>

dvars == <<task, breakpoints, number, regs, log, stdin, stderr, stderr_buf,
           pump, emulator, last>>

(***************************************************************************)
(* Bounds of the model.                                                    *)
(***************************************************************************)
HunkSize == 2   \* the size of every CODE and DATA hunk; stab values and symbol
                \* offsets range over 0..HunkSize-1
MaxItems == 2   \* the executable holds at most MaxItems symbols and stabs (the
                \* N_SO stab that opens a DEBUG hunk not counted)
SegStep == 3    \* a runtime segment starts at 0 or at SegStep

(***************************************************************************)
(* Python values.                                                          *)
(***************************************************************************)
None == [tag |-> "None"]
PyInt(n) == [tag |-> "int", val |-> n]
PyBool(b) == [tag |-> "bool", val |-> b]
Raise(e) == [tag |-> "raise", exc |-> e]

\* The characters of the strings the model uses, and their ord(). None of them
\* is one of a r s u * x @ e = t T, so those branches of the stab string
\* grammar are outside the model.
Chars == {"-", ".", "/", "0", "1", "2", ":", "F", "G", "\\", "_", "c", "k", "m", "n"}

Ord(c) ==
    CASE c = "-" -> 45 [] c = "." -> 46 [] c = "/" -> 47
      [] c = "0" -> 48 [] c = "1" -> 49 [] c = "2" -> 50
      [] c = ":" -> 58 [] c = "F" -> 70 [] c = "G" -> 71
      [] c = "\\" -> 92 [] c = "_" -> 95
      [] c = "c" -> 99 [] c = "k" -> 107 [] c = "m" -> 109 [] c = "n" -> 110

\* str.__lt__: lexicographic by code point
RECURSIVE StrLess(_, _)
StrLess(a, b) ==
    IF b = <<>> THEN FALSE
    ELSE IF a = <<>> THEN TRUE
    ELSE IF Head(a) # Head(b) THEN Ord(Head(a)) < Ord(Head(b))
    ELSE StrLess(Tail(a), Tail(b))

\* s[1:]
Slice1(s) == IF s = <<>> THEN <<>> ELSE Tail(s)

\* s[:-1]
DropLast(s) == IF s = <<>> THEN <<>> ELSE SubSeq(s, 1, Len(s) - 1)

\* str.endswith
EndsWith(s, suffix) ==
    /\ Len(suffix) <= Len(s)
    /\ SubSeq(s, Len(s) - Len(suffix) + 1, Len(s)) = suffix

(***************************************************************************)
(* Symbol and SourceLine.                                                  *)
(***************************************************************************)
\* Symbol(address, name): the object; a reference to it is its index in the heap
Symbol(address, name) == [address |-> address, name |-> name]

\* SourceLine(address, path, line, symbol): symbol is a reference
SourceLine(address, path, line, symbol) ==
    [address |-> address, path |-> path, line |-> line, symbol |-> symbol]

\* SourceLine.name
SourceLine_name(h, sl) == h[sl.symbol].name

\* SourceLine.offset
SourceLine_offset(h, sl) == sl.address - h[sl.symbol].address

\* Symbol.__lt__ on two references
Symbol_lt(h, a, b) ==
    IF h[a].address = h[b].address
    THEN StrLess(h[a].name, h[b].name)
    ELSE h[a].address < h[b].address

\* SourceLine.__lt__
SourceLine_lt(h, a, b) ==
    IF a.address = b.address
    THEN StrLess(SourceLine_name(h, a), SourceLine_name(h, b))
    ELSE a.address < b.address

\* sorted(symbols): stable, by Symbol.__lt__
RECURSIVE InsertSymbol(_, _, _)
InsertSymbol(h, x, s) ==
    IF s = <<>> THEN <<x>>
    ELSE IF Symbol_lt(h, x, Head(s)) THEN <<x>> \o s
    ELSE <<Head(s)>> \o InsertSymbol(h, x, Tail(s))

RECURSIVE SortedSymbols(_, _)
SortedSymbols(h, s) ==
    IF s = <<>> THEN <<>>
    ELSE InsertSymbol(h, s[Len(s)], SortedSymbols(h, DropLast(s)))

\* sorted(lines): stable, by SourceLine.__lt__
RECURSIVE InsertLine(_, _, _)
InsertLine(h, x, s) ==
    IF s = <<>> THEN <<x>>
    ELSE IF SourceLine_lt(h, x, Head(s)) THEN <<x>> \o s
    ELSE <<Head(s)>> \o InsertLine(h, x, Tail(s))

\* a faulty variant of sorted(lines), which keeps the order of arrival
SortedLines_unsorted(h, s) == s

RECURSIVE SortedLines(_, _)
SortedLines(h, s) ==
    IF s = <<>> THEN <<>>
    ELSE InsertLine(h, s[Len(s)], SortedLines(h, DropLast(s)))

(***************************************************************************)
(* Section.                                                                *)
(***************************************************************************)
\* Section(h, start, size)
Section(h, start, size) ==
    [hunk |-> h, start |-> start, size |-> size, symbols |-> <<>>, lines |-> <<>>]

\* Section.end
Section_end(sec) == sec.start + sec.size

\* Section.has_address
Section_has_address(sec, addr) == sec.start <= addr /\ addr < Section_end(sec)

\* Section.relocate: <<returned value, the section, the heap>> afterwards
RECURSIVE ShiftSymbols(_, _, _)
ShiftSymbols(h, refs, diff) ==
    IF refs = <<>> THEN h
    ELSE ShiftSymbols([h EXCEPT ![Head(refs)].address = @ + diff], Tail(refs), diff)

\* a faulty variant of the loop over self.lines, which leaves the lines where
\* they were
ShiftLines_unshifted(lines, diff) == lines

ShiftLines(lines, diff) ==
    [i \in 1..Len(lines) |-> [lines[i] EXCEPT !.address = @ + diff]]

\* a faulty variant of Section.relocate, which takes the new start itself for
\* the distance to move by
Section_relocate_absolute(h, sec, start, size) ==
    IF sec.size # size
    THEN [ret |-> FALSE, sec |-> sec, heap |-> h]
    ELSE [ret  |-> TRUE,
          sec  |-> [sec EXCEPT !.lines = ShiftLines(sec.lines, start),
                               !.start = start],
          heap |-> ShiftSymbols(h, sec.symbols, start)]

Section_relocate(h, sec, start, size) ==
    IF sec.size # size
    THEN [ret |-> FALSE, sec |-> sec, heap |-> h]
    ELSE LET diff == start - sec.start
         IN  [ret  |-> TRUE,
              sec  |-> [sec EXCEPT !.lines = ShiftLines(sec.lines, diff),
                                   !.start = start],
              heap |-> ShiftSymbols(h, sec.symbols, diff)]

\* Section.cleanup, first loop: drop the symbols that share their address with
\* the next one; st = [heap, new_symbols]
RECURSIVE CleanupSymbols(_, _, _)
CleanupSymbols(st, symbols, i) ==
    IF i > Len(symbols) THEN st
    ELSE LET s == symbols[i]
         IN  IF i + 1 <= Len(symbols)
                /\ st.heap[s].address = st.heap[symbols[i + 1]].address
             THEN LET sn == symbols[i + 1]
                  IN  IF st.heap[sn].name = <<"_">> \o st.heap[s].name
                      THEN CleanupSymbols(
                               [st EXCEPT !.heap[sn].name = st.heap[s].name],
                               symbols, i + 1)
                      ELSE CleanupSymbols(st, symbols, i + 1)
             ELSE CleanupSymbols(
                      [st EXCEPT !.new_symbols = Append(@, s)], symbols, i + 1)

\* Section.cleanup, second loop, for one line el of extra_lines:
\* st = [heap, lines]
RECURSIVE MatchCommon(_, _, _, _)
MatchCommon(st, el, symbols, i) ==
    IF i > Len(symbols) THEN st
    ELSE LET s == symbols[i]
             el_name == st.heap[el.symbol].name
         IN  IF st.heap[s].name = el_name \/ Slice1(st.heap[s].name) = el_name
             THEN MatchCommon(
                      [heap  |-> [st.heap EXCEPT ![s].name = el_name],
                       lines |-> Append(st.lines,
                                   SourceLine(st.heap[s].address, el.path, el.line, s))],
                      el, symbols, i + 1)
             ELSE MatchCommon(st, el, symbols, i + 1)

RECURSIVE MatchCommons(_, _, _)
MatchCommons(st, extra_lines, symbols) ==
    IF extra_lines = <<>> THEN st
    ELSE MatchCommons(MatchCommon(st, Head(extra_lines), symbols, 1),
                      Tail(extra_lines), symbols)

\* Section.cleanup: [sec, heap] afterwards
Cleanup_sorted(sec, b) ==
    [sec  |-> [sec EXCEPT !.lines = SortedLines(b.heap, b.lines)],
     heap |-> b.heap]

Cleanup_matched(sec, a, extra_lines) ==
    Cleanup_sorted([sec EXCEPT !.symbols = a.new_symbols],
                   MatchCommons([heap |-> a.heap, lines |-> sec.lines],
                                extra_lines, a.new_symbols))

Section_cleanup(h, sec, extra_lines) ==
    Cleanup_matched(sec,
                    CleanupSymbols([heap |-> h, new_symbols |-> <<>>],
                                   SortedSymbols(h, sec.symbols), 1),
                    extra_lines)

\* Section.ask_address: max() returns the first of the greatest candidates and
\* raises ValueError when there is none
\* a faulty variant of max(), which returns the first candidate
MaxByAddress_first(best, rest) == best

RECURSIVE MaxByAddress(_, _)
MaxByAddress(best, rest) ==
    IF rest = <<>> THEN best
    ELSE MaxByAddress(IF Head(rest).address > best.address THEN Head(rest) ELSE best,
                      Tail(rest))

AskAddress_max(lines) ==
    IF lines = <<>> THEN Raise("ValueError")
    ELSE [tag |-> "SourceLine", sl |-> MaxByAddress(Head(lines), Tail(lines))]

Section_ask_address(h, sec, addr) ==
    IF addr.tag # "int" THEN Raise("TypeError")
    ELSE IF Section_has_address(sec, addr.val)
    THEN AskAddress_max(
             SelectSeq(sec.lines \o [i \in 1..Len(sec.symbols) |->
                                        SourceLine(h[sec.symbols[i]].address, None,
                                                   0, sec.symbols[i])],
                       LAMBDA sl : sl.address <= addr.val))
    ELSE None

\* Section.ask_symbol
RECURSIVE Section_ask_symbol(_, _, _)
Section_ask_symbol(h, symbols, name) ==
    IF symbols = <<>> THEN None
    ELSE IF h[Head(symbols)].name = name THEN PyInt(h[Head(symbols)].address)
    ELSE Section_ask_symbol(h, Tail(symbols), name)

\* Section.ask_source_line: sl.path is the SourceFile object given to
\* SourceLine by fromFile, or None; neither has an endswith attribute
RECURSIVE Section_ask_source_line(_, _, _)
Section_ask_source_line(lines, path, line) ==
    IF lines = <<>> THEN None
    ELSE LET sl == Head(lines)
         IN  IF sl.path.tag # "str" THEN Raise("AttributeError")
             ELSE IF EndsWith(sl.path.val, path) /\ sl.line >= line
             THEN PyInt(sl.address)
             ELSE Section_ask_source_line(Tail(lines), path, line)

\* Python truth value of what the Section queries return
Truthy(v) ==
    CASE v.tag = "None" -> FALSE
      [] v.tag = "int" -> v.val # 0
      [] OTHER -> TRUE

(***************************************************************************)
(* DebugInfo.                                                              *)
(***************************************************************************)
\* DebugInfo.relocate: [ret, sections, heap] afterwards
Relocated(ret, secs, h) == [ret |-> ret, sections |-> secs, heap |-> h]

RECURSIVE RelocateFrom(_, _, _)
Relocate_next(d, r, segments, i) ==
    IF ~r.ret THEN Relocated(FALSE, d.sections, d.heap)
    ELSE RelocateFrom(Relocated(TRUE, [d.sections EXCEPT ![i] = r.sec], r.heap),
                      segments, i + 1)

RelocateFrom(d, segments, i) ==
    IF i > Len(d.sections) \/ i > Len(segments) THEN d
    ELSE Relocate_next(d,
                       Section_relocate(d.heap, d.sections[i],
                                        segments[i].start, segments[i].size),
                       segments, i)

DebugInfo_relocate(h, secs, segments) ==
    IF Len(secs) # Len(segments) THEN Relocated(FALSE, secs, h)
    ELSE RelocateFrom(Relocated(TRUE, secs, h), segments, 1)

\* DebugInfo.ask_address
RECURSIVE DebugInfo_ask_address(_, _, _)
AskAddress_next(line, h, secs, addr) ==
    IF line.tag = "raise" \/ Truthy(line) THEN line
    ELSE DebugInfo_ask_address(h, Tail(secs), addr)

DebugInfo_ask_address(h, secs, addr) ==
    IF secs = <<>> THEN None
    ELSE AskAddress_next(Section_ask_address(h, Head(secs), addr), h, secs, addr)

\* DebugInfo.ask_symbol
RECURSIVE DebugInfo_ask_symbol(_, _, _)
AskSymbol_next(addr, h, secs, name) ==
    IF Truthy(addr) THEN addr ELSE DebugInfo_ask_symbol(h, Tail(secs), name)

DebugInfo_ask_symbol(h, secs, name) ==
    IF secs = <<>> THEN None
    ELSE AskSymbol_next(Section_ask_symbol(h, Head(secs).symbols, name),
                        h, secs, name)

\* str.split(sep) for a one-character sep: the parts, cur being the part read
\* so far
RECURSIVE SplitFrom(_, _, _)
SplitFrom(s, sep, cur) ==
    IF s = <<>> THEN <<cur>>
    ELSE IF Head(s) = sep THEN <<cur>> \o SplitFrom(Tail(s), sep, <<>>)
    ELSE SplitFrom(Tail(s), sep, Append(cur, Head(s)))

Split(s, sep) == SplitFrom(s, sep, <<>>)

\* int(s), base 10, for strings over Chars: an optional '-', then digits with
\* single underscores allowed between them; anything else is a ValueError
Digits == {"0", "1", "2"}

DigitVal(c) == Ord(c) - 48

RECURSIVE DecimalVal(_, _)
DecimalVal(s, acc) ==
    IF s = <<>> THEN acc
    ELSE IF Head(s) = "_" THEN DecimalVal(Tail(s), acc)
    ELSE DecimalVal(Tail(s), 10 * acc + DigitVal(Head(s)))

IsDecimal(ds) ==
    /\ ds # <<>>
    /\ \A i \in 1..Len(ds) :
          \/ ds[i] \in Digits
          \/ ds[i] = "_" /\ 1 < i /\ i < Len(ds)
                         /\ ds[i - 1] \in Digits /\ ds[i + 1] \in Digits

ParseInt_signed(neg, ds) ==
    IF ~IsDecimal(ds) THEN Raise("ValueError")
    ELSE PyInt(IF neg THEN 0 - DecimalVal(ds, 0) ELSE DecimalVal(ds, 0))

ParseInt(s) ==
    IF s # <<>> /\ Head(s) = "-" THEN ParseInt_signed(TRUE, Tail(s))
    ELSE ParseInt_signed(FALSE, s)

\* DebugInfo.ask_source_line, the loop over the sections
RECURSIVE AskSourceLineIn(_, _, _)
AskSourceLine_next(addr, secs, path, line) ==
    IF addr.tag = "raise" \/ Truthy(addr) THEN addr
    ELSE AskSourceLineIn(Tail(secs), path, line)

AskSourceLineIn(secs, path, line) ==
    IF secs = <<>> THEN None
    ELSE AskSourceLine_next(Section_ask_source_line(Head(secs).lines, path, line),
                            secs, path, line)

\* a faulty variant of the except clause around int(line), which searches for
\* line 0 instead of returning
AskSourceLine_int_unchecked(secs, path, line) ==
    AskSourceLineIn(secs, path, IF line.tag = "raise" THEN 0 ELSE line.val)

\* DebugInfo.ask_source_line
AskSourceLine_int(secs, path, line) ==
    IF line.tag = "raise" THEN None ELSE AskSourceLineIn(secs, path, line.val)

AskSourceLine_split(secs, parts) ==
    IF Len(parts) # 2 THEN None
    ELSE AskSourceLine_int(secs, parts[1], ParseInt(parts[2]))

DebugInfo_ask_source_line(secs, where) ==
    AskSourceLine_split(secs, Split(where, ":"))

(***************************************************************************)
(* StabInfoParser: p = [data, pos] is the parser's buffer and position. A  *)
(* parsing method returns [exc, p, val]: the exception it raised ("" when  *)
(* none), the parser afterwards and the value returned.                    *)
(***************************************************************************)
StabInfoParser == [data |-> <<>>, pos |-> 0]

Ok(p, val) == [exc |-> "", p |-> p, val |-> val]
Fail(p, exc) == [exc |-> exc, p |-> p, val |-> None]

\* self._data[self._pos], "" for the IndexError
Parser_at(p) == IF p.pos < Len(p.data) THEN p.data[p.pos + 1] ELSE ""

\* StabInfoParser.rest
Parser_rest(p) == SubSeq(p.data, p.pos + 1, Len(p.data))

\* StabInfoParser.read: val is the character, "" for None
Parser_read(p) ==
    IF p.pos < Len(p.data)
    THEN Ok([p EXCEPT !.pos = @ + 1], p.data[p.pos + 1])
    ELSE Ok(p, "")

\* StabInfoParser.unread
Parser_unread(p) == [p EXCEPT !.pos = @ - 1]

\* StabInfoParser.expect: the message of its ValueError indexes rest()
Parser_expect(p, char) ==
    IF Parser_at(p) # char
    THEN Fail(p, IF Parser_rest(p) = <<>> THEN "IndexError" ELSE "ValueError")
    ELSE Ok([p EXCEPT !.pos = @ + 1], None)

\* the length of the longest run of characters of cs in s
RECURSIVE RunLen(_, _)
RunLen(s, cs) ==
    IF s = <<>> \/ Head(s) \notin cs THEN 0 ELSE 1 + RunLen(Tail(s), cs)

\* TLabel = [A-Za-z0-9_ ]+, over Chars
LabelChars == {"0", "1", "2", "F", "G", "_", "c", "k", "m", "n"}

\* StabInfoParser.__Label: consume(TLabel)
Label_match(p, n) ==
    IF n = 0 THEN Fail(p, "ValueError")
    ELSE Ok([p EXCEPT !.pos = @ + n], SubSeq(p.data, p.pos + 1, p.pos + n))

Parser_Label(p) == Label_match(p, RunLen(Parser_rest(p), LabelChars))

\* StabInfoParser.__Number: consume(TNumber), TNumber = -?[0-9]+
SignLen(rest) == IF rest # <<>> /\ Head(rest) = "-" THEN 1 ELSE 0

NumberLen(rest, sign) ==
    IF RunLen(SubSeq(rest, sign + 1, Len(rest)), Digits) = 0 THEN 0
    ELSE sign + RunLen(SubSeq(rest, sign + 1, Len(rest)), Digits)

Number_match(p, n) ==
    IF n = 0 THEN Fail(p, "ValueError")
    ELSE Ok([p EXCEPT !.pos = @ + n], [kind |-> "int"])

Parser_Number(p) ==
    Number_match(p, NumberLen(Parser_rest(p), SignLen(Parser_rest(p))))

\* StabInfoParser.__Type, for the characters of Chars
Type_function(n) ==
    IF n.exc # "" THEN n ELSE Ok(n.p, [kind |-> "FunctionType"])

Type_code(r) ==
    IF r.val \in {"f", "F"}
    THEN Type_function(Parser_Number(r.p))
    ELSE Parser_Number(Parser_unread(r.p))

Parser_Type(p) == Type_code(Parser_read(p))

\* StabInfoParser.__TypeDecl ('=' is not in Chars)
Parser_TypeDecl(p) == Parser_Type(p)

\* StabInfoParser.__Info
Info_kind(code) ==
    CASE code \in {"G", "S", "V"} -> "Variable"
      [] code \in {"f", "F"} -> "Function"
      [] code = "r" -> "Register"
      [] code \in {"p", "P"} -> "Parameter"

Info_named(kind, name, t) ==
    IF t.exc # "" THEN t ELSE Ok(t.p, [kind |-> kind, name |-> name])

Info_code(name, r) ==
    IF r.val \in {"G", "S", "V", "f", "F", "r", "p", "P"}
    THEN Info_named(Info_kind(r.val), name, Parser_TypeDecl(r.p))
    ELSE Parser_TypeDecl(IF r.val \in {"t", "T"} THEN r.p ELSE Parser_unread(r.p))

Info_colon(name, e) ==
    IF e.exc # "" THEN e ELSE Info_code(name, Parser_read(e.p))

Info_label(l) ==
    IF l.exc # "" THEN l ELSE Info_colon(l.val, Parser_expect(l.p, ":"))

Parser_Info(p) == Info_label(Parser_Label(p))

\* StabInfoParser.get
Get_info(si) ==
    IF si.exc # "" THEN si
    ELSE IF si.p.pos < Len(si.p.data) THEN Fail(si.p, "ValueError")
    ELSE Ok(StabInfoParser, si.val)

Parser_get(p) == Get_info(Parser_Info(p))

\* StabInfoParser.feed: val is the boolean returned
Parser_feed(p, s) ==
    IF s = <<>> THEN Fail(p, "IndexError")
    ELSE IF s[Len(s)] = "\\" THEN Ok([p EXCEPT !.data = @ \o DropLast(s)], FALSE)
    ELSE Ok([p EXCEPT !.data = @ \o s], TRUE)

\* StabInfoParser.__call__
Parser_call(p, s) == Parser_get([data |-> s, pos |-> 0])

\* the namedtuples of the parser that have a name field
HasName(si) == si.kind \in {"Variable", "Function", "Register", "Parameter"}

(***************************************************************************)
(* Function: the function whose stabs are being read.                      *)
(***************************************************************************)
Scope(begin, end, values) == [begin |-> begin, end |-> end, values |-> values]

\* Function(): symbol is the reference of the fresh Symbol() it creates
Function(symbol) == [symbol |-> symbol, scopes |-> <<Scope(0, 0, {})>>]

(***************************************************************************)
(* DebugInfo.fromFile. The state of the loop is                            *)
(*   exc       the exception that ended it, "" while it runs               *)
(*   sections, heap                                                        *)
(*   common    the COMMON Section, which is in no list                     *)
(*   last      kind -> the index of its latest Section in sections, 0 for  *)
(*             None and -1 for common                                      *)
(*   start, size                                                           *)
(*   func, dirname, filename, source, parser  (of the current DEBUG hunk;  *)
(*             parser is source.parser)                                    *)
(* Hunk types are compared as the strings they are.                        *)
(***************************************************************************)
SourceFile(filename) == [tag |-> "SourceFile", filename |-> filename]

stab_to_section(type) ==
    CASE type = "GSYM" -> "COMMON" [] type = "STSYM" -> "DATA" [] type = "LCSYM" -> "BSS"

Throw(st, exc) == [st EXCEPT !.exc = exc]

\* sec.symbols.append(ref) and sec.lines.append(sl) for the Section that
\* last[kind] refers to
AppendSymbol(st, kind, ref) ==
    IF st.last[kind] = 0 THEN Throw(st, "AttributeError")
    ELSE IF st.last[kind] = -1 THEN [st EXCEPT !.common.symbols = Append(@, ref)]
    ELSE [st EXCEPT !.sections[st.last[kind]].symbols = Append(@, ref)]

AppendLine(st, kind, sl) ==
    IF st.last[kind] = 0 THEN Throw(st, "AttributeError")
    ELSE IF st.last[kind] = -1 THEN [st EXCEPT !.common.lines = Append(@, sl)]
    ELSE [st EXCEPT !.sections[st.last[kind]].lines = Append(@, sl)]

\* source.parser.feed(st.str) and, when it returns true, source.parser.get():
\* [exc, parser, got, si]
Fed(exc, parser, got, si) == [exc |-> exc, parser |-> parser, got |-> got, si |-> si]

FeedAndGet_get(g) == Fed(g.exc, g.p, g.exc = "", g.val)

FeedAndGet_feed(f) ==
    IF f.exc # "" \/ ~f.val THEN Fed(f.exc, f.p, FALSE, None)
    ELSE FeedAndGet_get(Parser_get(f.p))

FeedAndGet(st, str) ==
    IF st.source = None THEN Fed("AttributeError", st.parser, FALSE, None)
    ELSE FeedAndGet_feed(Parser_feed(st.parser, str))

\* N_SO, N_SOL
StabSO_file(st, s, filename) ==
    IF s.type = "SO"
    THEN [st EXCEPT !.filename = filename,
                    !.source = SourceFile(filename),
                    !.parser = StabInfoParser]
    ELSE [st EXCEPT !.filename = filename]

StabSO(st, s) ==
    IF s.str = <<>> THEN Throw(st, "IndexError")
    ELSE IF s.str[Len(s.str)] = "/" THEN [st EXCEPT !.dirname = s.str]
    ELSE StabSO_file(st, s, IF Head(s.str) = "/" THEN s.str ELSE st.dirname \o s.str)

\* N_DATA, N_BSS
StabDATA(st, s) ==
    AppendSymbol([st EXCEPT !.heap = Append(@, Symbol(s.value, s.str))],
                 s.type, Len(st.heap) + 1)

\* N_GSYM, N_STSYM, N_LCSYM
StabGSYM_line(st, sl, kind) ==
    IF st.exc # "" THEN st ELSE AppendLine(st, kind, sl)

StabGSYM_symbol(st, s, name, kind) ==
    StabGSYM_line(
        AppendSymbol([st EXCEPT !.heap = Append(@, Symbol(s.value, name))],
                     kind, Len(st.heap) + 1),
        SourceLine(s.value, st.source, s.desc, Len(st.heap) + 1),
        kind)

StabGSYM_parsed(st, s, fg) ==
    IF fg.exc # "" THEN Throw(st, fg.exc)
    ELSE IF ~fg.got THEN st
    ELSE IF ~HasName(fg.si) THEN Throw(st, "AttributeError")
    ELSE StabGSYM_symbol(st, s, fg.si.name, stab_to_section(s.type))

WithParser(st, fg) == [st EXCEPT !.parser = fg.parser]

StabGSYM_fed(st, s, fg) == StabGSYM_parsed(WithParser(st, fg), s, fg)

StabGSYM(st, s) == StabGSYM_fed(st, s, FeedAndGet(st, s.str))

\* N_LSYM
StabLSYM_fed(st, fg) ==
    IF fg.exc # "" THEN Throw(WithParser(st, fg), fg.exc) ELSE WithParser(st, fg)

StabLSYM(st, s) == StabLSYM_fed(st, FeedAndGet(st, s.str))

\* N_SLINE
StabSLINE(st, s) ==
    AppendLine(st, "CODE", SourceLine(s.value, st.source, s.desc, st.func.symbol))

\* N_FUN
StabFUN_next(st) ==
    IF st.exc # "" THEN st
    ELSE [st EXCEPT !.heap = Append(@, Symbol(0, <<>>)),
                    !.func = Function(Len(st.heap) + 1)]

StabFUN_parsed(st, s, si) ==
    IF si.exc # "" THEN Throw(st, si.exc)
    ELSE IF ~HasName(si.val) THEN Throw(st, "AttributeError")
    ELSE StabFUN_next(
             AppendSymbol(
                 [st EXCEPT !.heap[st.func.symbol] = Symbol(s.value, si.val.name)],
                 "CODE", st.func.symbol))

StabFUN_called(st, s, si) == StabFUN_parsed([st EXCEPT !.parser = si.p], s, si)

StabFUN(st, s) ==
    IF st.source = None THEN Throw(st, "AttributeError")
    ELSE StabFUN_called(st, s, Parser_call(st.parser, s.str))

\* N_LBRAC: func.enterScope
StabLBRAC(st, s) ==
    [st EXCEPT !.func.scopes = Append(@, Scope(s.value, 0, {}))]

\* N_RBRAC: func.leaveScope
StabRBRAC(st, s) ==
    IF st.func.scopes = <<>> THEN Throw(st, "IndexError")
    ELSE [st EXCEPT !.func.scopes = DropLast(@)]

\* N_RSYM, N_PSYM: func.add(si.name, si.type)
StabRSYM_parsed(st, fg) ==
    IF fg.exc # "" THEN Throw(st, fg.exc)
    ELSE IF ~fg.got THEN st
    ELSE IF ~HasName(fg.si) THEN Throw(st, "AttributeError")
    ELSE IF st.func.scopes = <<>> THEN Throw(st, "IndexError")
    ELSE [st EXCEPT !.func.scopes[Len(st.func.scopes)].values = @ \cup {fg.si.name}]

StabRSYM_fed(st, fg) == StabRSYM_parsed(WithParser(st, fg), fg)

StabRSYM(st, s) == StabRSYM_fed(st, FeedAndGet(st, s.str))

\* one stab of a DEBUG hunk
Stab(st, s) ==
    CASE s.type \in {"SO", "SOL"} -> StabSO(st, s)
      [] s.type \in {"DATA", "BSS"} -> StabDATA(st, s)
      [] s.type \in {"GSYM", "STSYM", "LCSYM"} -> StabGSYM(st, s)
      [] s.type = "LSYM" -> StabLSYM(st, s)
      [] s.type = "SLINE" -> StabSLINE(st, s)
      [] s.type = "FUN" -> StabFUN(st, s)
      [] s.type = "TEXT" -> st
      [] s.type = "LBRAC" -> StabLBRAC(st, s)
      [] s.type = "RBRAC" -> StabRBRAC(st, s)
      [] s.type \in {"RSYM", "PSYM"} -> StabRSYM(st, s)
      [] OTHER -> Throw(st, "ValueError")

RECURSIVE Stabs(_, _)
Stabs(st, stabs) ==
    IF stabs = <<>> \/ st.exc # "" THEN st
    ELSE Stabs(Stab(st, Head(stabs)), Tail(stabs))

\* one symbol of a HUNK_SYMBOL hunk
HunkSymbol(st, s) ==
    IF s.name = <<>> \/ st.sections = <<>> THEN Throw(st, "IndexError")
    ELSE [st EXCEPT !.heap = Append(@, Symbol(s.refs + st.start,
                                              IF Head(s.name) = "_"
                                              THEN Tail(s.name) ELSE s.name)),
                    !.sections[Len(st.sections)].symbols =
                        Append(@, Len(st.heap) + 1)]

RECURSIVE HunkSymbols(_, _)
HunkSymbols(st, symbols) ==
    IF symbols = <<>> \/ st.exc # "" THEN st
    ELSE HunkSymbols(HunkSymbol(st, Head(symbols)), Tail(symbols))

\* one hunk of the executable
HunkKind(type) ==
    CASE type = "HUNK_CODE" -> "CODE"
      [] type = "HUNK_DATA" -> "DATA"
      [] type = "HUNK_BSS" -> "BSS"

Hunk(st, h) ==
    CASE h.type \in {"HUNK_CODE", "HUNK_DATA", "HUNK_BSS"} ->
            [st EXCEPT !.start = st.start + st.size,
                       !.size = h.size,
                       !.sections = Append(@, Section(h.type, st.start + st.size,
                                                      h.size)),
                       !.last[HunkKind(h.type)] = Len(st.sections) + 1]
      [] h.type = "HUNK_SYMBOL" -> HunkSymbols(st, h.symbols)
      [] h.type = "HUNK_DEBUG" ->
            Stabs([st EXCEPT !.heap = Append(@, Symbol(0, <<>>)),
                             !.func = Function(Len(st.heap) + 1),
                             !.dirname = <<>>,
                             !.filename = <<>>,
                             !.source = None,
                             !.parser = StabInfoParser],
                  h.data)
      [] OTHER -> st

RECURSIVE Hunks(_, _)
Hunks(st, hunks) ==
    IF hunks = <<>> \/ st.exc # "" THEN st
    ELSE Hunks(Hunk(st, Head(hunks)), Tail(hunks))

\* the loop "for section in self.sections: section.cleanup(common.lines)"
CleanupFrom_next(c, secs, i) ==
    [heap |-> c.heap, sections |-> [secs EXCEPT ![i] = c.sec]]

RECURSIVE CleanupFrom(_, _, _)
CleanupFrom(d, extra_lines, i) ==
    IF i > Len(d.sections) THEN d
    ELSE CleanupFrom(
             CleanupFrom_next(Section_cleanup(d.heap, d.sections[i], extra_lines),
                              d.sections, i),
             extra_lines, i + 1)

\* DebugInfo.fromFile on a fresh DebugInfo: [exc, sections, heap]
FromFile_start ==
    [exc |-> "", sections |-> <<>>, heap |-> <<>>,
     common |-> Section(None, 0, 0),
     last |-> [CODE |-> 0, DATA |-> 0, BSS |-> 0, COMMON |-> -1],
     start |-> 0, size |-> 0,
     func |-> None, dirname |-> <<>>, filename |-> <<>>,
     source |-> None, parser |-> StabInfoParser]

FromFile_cleaned(c) == [exc |-> "", sections |-> c.sections, heap |-> c.heap]

FromFile_end(st) ==
    IF st.exc # ""
    THEN [exc |-> st.exc, sections |-> st.sections, heap |-> st.heap]
    ELSE FromFile_cleaned(
             CleanupFrom([heap |-> st.heap, sections |-> st.sections],
                         st.common.lines, 1))

DebugInfo_fromFile(executable) == FromFile_end(Hunks(FromFile_start, executable))

(***************************************************************************)
(* The executables read: HUNK_CODE, then HUNK_DATA, each optionally        *)
(* followed by a HUNK_SYMBOL hunk of one symbol, and then optionally one   *)
(* HUNK_DEBUG hunk of an N_SO stab and further stabs.                      *)
(***************************************************************************)
Str_m == <<"m">>
Str_um == <<"_", "m">>
Str_n == <<"n">>
Str_kc == <<"k", ".", "c">>
Str_nm == <<"n", "m">>

Values == 0..(HunkSize - 1)

HunkTypes == <<"HUNK_CODE", "HUNK_DATA">>

SymbolHunks ==
    {[type |-> "HUNK_SYMBOL", symbols |-> <<[name |-> n, refs |-> r]>>] :
        n \in {Str_um, Str_n}, r \in Values}

StabOf(type, value, desc, str) ==
    [type |-> type, value |-> value, desc |-> desc, str |-> str]

StabMenu ==
    {StabOf("FUN", v, 0, Str_m \o <<":", "F", "1">>) : v \in Values}
    \cup {StabOf("SLINE", v, 1, <<>>) : v \in Values}
    \cup {StabOf("GSYM", 0, 1, Str_m \o <<":", "G", "1">>)}
    \cup {StabOf("STSYM", v, 1, Str_m \o <<":", "G", "1">>) : v \in Values}
    \cup {StabOf("DATA", v, 0, Str_um) : v \in Values}
    \cup {StabOf("DATA", 0, 0, Str_nm)}
    \* a stab string that the grammar rejects: no type follows the ':'
    \cup {StabOf("LSYM", 0, 0, Str_m \o <<":">>)}

RECURSIVE SeqsUpTo(_, _)
SeqsUpTo(S, n) ==
    IF n <= 0 THEN {<<>>}
    ELSE LET shorter == SeqsUpTo(S, n - 1)
         IN  shorter \cup {Append(q, x) : q \in shorter, x \in S}

DebugHunks(n) ==
    {[type |-> "HUNK_DEBUG", data |-> <<StabOf("SO", 0, 0, Str_kc)>> \o body] :
        body \in SeqsUpTo(StabMenu, n)}

\* the hunks of the k-th of HunkTypes
Blocks(k) ==
    LET h == [type |-> HunkTypes[k], size |-> HunkSize]
    IN  {<<h>>} \cup {<<h, y>> : y \in SymbolHunks}

\* the executables of exactly n of these blocks
RECURSIVE BlockSeqs(_)
BlockSeqs(n) ==
    IF n = 0 THEN {<<>>}
    ELSE {q \o b : q \in BlockSeqs(n - 1), b \in Blocks(n)}

\* the number of HUNK_SYMBOL hunks of q
SymbolCount(q) == Cardinality({i \in 1..Len(q) : q[i].type = "HUNK_SYMBOL"})

Executables ==
    LET bs == {q \in UNION {BlockSeqs(n) : n \in 0..Len(HunkTypes)} :
                  SymbolCount(q) <= MaxItems}
    IN  bs \cup UNION {{q \o <<d>> : d \in DebugHunks(MaxItems - SymbolCount(q))} :
                          q \in bs}

(***************************************************************************)
(* The arguments of the calls.                                             *)
(***************************************************************************)
Segment(start, size) == [start |-> start, size |-> size]

Segments ==
    {Segment(a, n) : a \in {0, SegStep}, n \in {HunkSize, HunkSize + 1}}

\* the segments of a running program do not overlap
Disjoint(a, b) == a.start + a.size <= b.start \/ b.start + b.size <= a.start

SegmentLists ==
    {q \in SeqsUpTo(Segments, Len(HunkTypes)) :
        \A i, j \in 1..Len(q) : i # j => Disjoint(q[i], q[j])}

Addresses == 0..(SegStep + HunkSize)

Names == {Str_m, Str_um, Str_n}

Wheres ==
    {Str_kc \o <<":", "1">>, <<"c", ":", "0">>, Str_kc \o <<":", "-", "1">>,
     Str_kc \o <<":", "k">>, Str_kc, Str_kc \o <<":", "1", ":", "1">>,
     Str_kc \o <<":">>, Str_kc \o <<":", "_", "1">>}

(***************************************************************************)
(* The operations on a DebugInfo. No debugger session runs beside them.    *)
(***************************************************************************)
NoSession ==
    /\ task = [at |-> "none"]
    /\ breakpoints = <<>>
    /\ number = 0
    /\ regs = None
    /\ log = ""
    /\ stdin = <<>>
    /\ stderr = [tag |-> "future", done |-> FALSE, lines |-> <<>>]
    /\ stderr_buf = <<>>
    /\ pump = ""
    /\ emulator = "none"
    /\ last = [step |-> "none", fs |-> <<>>, at |-> "none", recv |-> <<>>]

Init ==
    /\ pc = "new"
    /\ sections = <<>>
    /\ heap = <<>>
    /\ result = [op |-> "DebugInfo", arg |-> None, ret |-> None]
    /\ NoSession

\* di.fromFile(executable)
FromFile_return(r, executable) ==
    /\ pc' = IF r.exc = "" THEN "loaded" ELSE "failed"
    /\ sections' = r.sections
    /\ heap' = r.heap
    /\ result' = [op |-> "fromFile", arg |-> executable,
                  ret |-> IF r.exc = "" THEN None ELSE Raise(r.exc)]
    /\ UNCHANGED dvars

FromFile(executable) ==
    /\ pc = "new"
    /\ FromFile_return(DebugInfo_fromFile(executable), executable)

\* di.relocate(segments)
Relocate_return(r, segments) ==
    /\ sections' = r.sections
    /\ heap' = r.heap
    /\ result' = [op |-> "relocate", arg |-> segments, ret |-> PyBool(r.ret)]

Relocate(segments) ==
    /\ pc = "loaded"
    /\ Relocate_return(DebugInfo_relocate(heap, sections, segments), segments)
    /\ UNCHANGED pc
    /\ UNCHANGED dvars

\* di.ask_address(addr)
AskAddress(addr) ==
    /\ pc = "loaded"
    /\ result' = [op |-> "ask_address", arg |-> addr,
                  ret |-> DebugInfo_ask_address(heap, sections, addr)]
    /\ UNCHANGED <<pc, sections, heap>>
    /\ UNCHANGED dvars

\* di.ask_symbol(name)
AskSymbol(name) ==
    /\ pc = "loaded"
    /\ result' = [op |-> "ask_symbol", arg |-> name,
                  ret |-> DebugInfo_ask_symbol(heap, sections, name)]
    /\ UNCHANGED <<pc, sections, heap>>
    /\ UNCHANGED dvars

\* di.ask_address(di.ask_symbol(name)): the address just returned by
\* ask_symbol is asked for
AskAddressOfSymbol ==
    /\ pc = "loaded"
    /\ result.op = "ask_symbol"
    /\ result' = [op |-> "ask_address_of_symbol", arg |-> result.arg,
                  ret |-> DebugInfo_ask_address(heap, sections, result.ret)]
    /\ UNCHANGED <<pc, sections, heap>>
    /\ UNCHANGED dvars

\* di.ask_source_line(where)
AskSourceLine(where) ==
    /\ pc = "loaded"
    /\ result' = [op |-> "ask_source_line", arg |-> where,
                  ret |-> DebugInfo_ask_source_line(sections, where)]
    /\ UNCHANGED <<pc, sections, heap>>
    /\ UNCHANGED dvars

Next ==
    \/ \E executable \in Executables : FromFile(executable)
    \/ \E segments \in SegmentLists : Relocate(segments)
    \/ \E addr \in Addresses : AskAddress(PyInt(addr))
    \/ \E name \in Names : AskSymbol(name)
    \/ AskAddressOfSymbol
    \/ \E where \in Wheres : AskSourceLine(where)

Spec == Init /\ [][Next]_vars

(***************************************************************************)
(* Properties of relocate.                                                 *)
(***************************************************************************)
\* what relocate may move: per section its start, the addresses of its
\* symbols and the addresses of its lines
Placement(h, secs) ==
    [i \in 1..Len(secs) |->
        [start   |-> secs[i].start,
         symbols |-> [k \in 1..Len(secs[i].symbols) |-> h[secs[i].symbols[k]].address],
         lines   |-> [k \in 1..Len(secs[i].lines) |-> secs[i].lines[k].address]]]

\* C1: whenever relocate(segments) returns False, every section's start and
\* every symbol and line address is what it was before the call, the sections
\* before the first mismatching one included.
C1_RelocateAllOrNothing ==
    [][(result'.op = "relocate" /\ result'.ret = PyBool(FALSE))
          => Placement(heap', sections') = Placement(heap, sections)]_vars

\* C2: whenever relocate(segments) returns True, for every i sections[i].start
\* is segments[i].start, sections[i].size is unchanged, and every symbol address
\* and every line address of sections[i] has moved by segments[i].start minus
\* the previous start.
C2_RelocateShifts ==
    [][(result'.op = "relocate" /\ result'.ret = PyBool(TRUE))
          => /\ Len(sections') = Len(sections)
             /\ Len(result'.arg) = Len(sections)
             /\ \A i \in 1..Len(sections) :
                   /\ sections'[i].start = result'.arg[i].start
                   /\ sections'[i].size = sections[i].size
                   /\ sections'[i].symbols = sections[i].symbols
                   /\ \A k \in 1..Len(sections[i].symbols) :
                         heap'[sections[i].symbols[k]].address =
                             heap[sections[i].symbols[k]].address
                                 + (result'.arg[i].start - sections[i].start)
                   /\ Len(sections'[i].lines) = Len(sections[i].lines)
                   /\ \A k \in 1..Len(sections[i].lines) :
                         sections'[i].lines[k].address =
                             sections[i].lines[k].address
                                 + (result'.arg[i].start - sections[i].start)]_vars

\* relocate has returned True after moving the first of two sections, which
\* holds a symbol and a line, from 0 to SegStep
C2_Witness ==
    /\ result.op = "relocate"
    /\ result.ret = PyBool(TRUE)
    /\ Len(sections) = 2
    /\ sections[1].symbols # <<>>
    /\ sections[1].lines # <<>>
    /\ sections[1].start = SegStep

(***************************************************************************)
(* Properties of ask_address.                                              *)
(***************************************************************************)
\* sl is one of the lines of sec or the projection of one of its symbols
OfSection(h, sec, sl) ==
    \/ \E k \in 1..Len(sec.lines) : sec.lines[k] = sl
    \/ \E k \in 1..Len(sec.symbols) :
          sl = SourceLine(h[sec.symbols[k]].address, None, 0, sec.symbols[k])

\* C3: right after a successful relocate(segs), for every section i and every
\* address of segs[i], ask_address returns a SourceLine or projected Symbol of
\* section i: it neither returns None nor raises.
C3_RelocatedAddressResolves ==
    [][(/\ result.op = "relocate"
        /\ result.ret = PyBool(TRUE)
        /\ result'.op = "ask_address")
          => \A i \in 1..Len(result.arg) :
                (/\ result.arg[i].start <= result'.arg.val
                 /\ result'.arg.val < result.arg[i].start + result.arg[i].size)
                   => /\ result'.ret.tag = "SourceLine"
                      /\ OfSection(heap, sections[i], result'.ret.sl)]_vars

\* C4: if ask_address(a) returns a record sl then sl.symbol.address <= a.
C4_SymbolNotAfterAddress ==
    (result.op = "ask_address" /\ result.ret.tag = "SourceLine")
        => heap[result.ret.sl.symbol].address <= result.arg.val

(***************************************************************************)
(* Properties of ask_symbol.                                               *)
(***************************************************************************)
\* the symbols of all sections, sections in declaration order and symbols in
\* stored order
RECURSIVE AllSymbols(_)
AllSymbols(secs) ==
    IF secs = <<>> THEN <<>> ELSE Head(secs).symbols \o AllSymbols(Tail(secs))

NamedSymbols(h, secs, name) ==
    SelectSeq(AllSymbols(secs), LAMBDA s : h[s].name = name)

\* C5: ask_symbol(name) returns the address of the first symbol whose name is
\* name, also when that address is 0, and None only when there is no such
\* symbol.
C5_FirstSymbolNamed ==
    result.op = "ask_symbol"
        => result.ret = IF NamedSymbols(heap, sections, result.arg) = <<>>
                        THEN None
                        ELSE PyInt(heap[Head(NamedSymbols(heap, sections,
                                                          result.arg))].address)

(***************************************************************************)
(* Properties of ask_source_line.                                          *)
(***************************************************************************)
\* where = P + ':' + L with L an integer
WellFormed(where) ==
    /\ Len(Split(where, ":")) = 2
    /\ ParseInt(Split(where, ":")[2]).tag = "int"

\* the lines of sec whose source file name ends in P and whose line is >= L
MatchingLines(sec, P, L) ==
    SelectSeq(sec.lines,
              LAMBDA sl : /\ sl.path.tag = "SourceFile"
                          /\ EndsWith(sl.path.filename, P)
                          /\ sl.line >= L)

\* the sections that have such a line, in declaration order
MatchingSections(secs, P, L) ==
    SelectSeq(secs, LAMBDA sec : MatchingLines(sec, P, L) # <<>>)

LowestAddress(lines) ==
    CHOOSE a \in {lines[k].address : k \in 1..Len(lines)} :
        \A k \in 1..Len(lines) : a <= lines[k].address

ExpectedSourceLine(secs, P, L) ==
    IF MatchingSections(secs, P, L) = <<>> THEN None
    ELSE PyInt(LowestAddress(MatchingLines(Head(MatchingSections(secs, P, L)), P, L)))

\* C6: ask_source_line(P + ':' + L) returns the lowest address of a line with
\* a path ending in P and a line >= L within the first section that has such a
\* line, and None only if no section has one.
C6_LowestMatchingLine ==
    (result.op = "ask_source_line" /\ WellFormed(result.arg))
        => result.ret = ExpectedSourceLine(sections,
                                           Split(result.arg, ":")[1],
                                           ParseInt(Split(result.arg, ":")[2]).val)

SymbolsSorted(h, sec) ==
    \A j, k \in 1..Len(sec.symbols) :
        j < k => ~Symbol_lt(h, sec.symbols[k], sec.symbols[j])

LinesSorted(h, sec) ==
    \A j, k \in 1..Len(sec.lines) :
        j < k => ~SourceLine_lt(h, sec.lines[k], sec.lines[j])

\* no two entries with the same (address, name)
SymbolsDistinct(h, sec) ==
    \A j, k \in 1..Len(sec.symbols) :
        j < k => \/ h[sec.symbols[j]].address # h[sec.symbols[k]].address
                 \/ h[sec.symbols[j]].name # h[sec.symbols[k]].name

LinesDistinct(h, sec) ==
    \A j, k \in 1..Len(sec.lines) :
        j < k => \/ sec.lines[j].address # sec.lines[k].address
                 \/ SourceLine_name(h, sec.lines[j]) # SourceLine_name(h, sec.lines[k])

\* C8, as stated: after fromFile, in every section the symbols are sorted by
\* (address, name), the lines are sorted by (address, symbol name), and
\* neither list has two entries with the same (address, name).
C8_SortedAndDistinct ==
    (result.op = "fromFile" /\ pc = "loaded")
        => \A i \in 1..Len(sections) :
              /\ SymbolsSorted(heap, sections[i])
              /\ LinesSorted(heap, sections[i])
              /\ SymbolsDistinct(heap, sections[i])
              /\ LinesDistinct(heap, sections[i])

\* C8, as the code has it: after fromFile has returned, in every section the
\* symbols are sorted by (address, name) and no two of them have the same
\* address, and the lines are sorted by (address, symbol name).
C8_SortedSymbolsDistinct ==
    (result.op = "fromFile" /\ pc = "loaded")
        => \A i \in 1..Len(sections) :
              /\ SymbolsSorted(heap, sections[i])
              /\ LinesSorted(heap, sections[i])
              /\ \A j, k \in 1..Len(sections[i].symbols) :
                    j < k => heap[sections[i].symbols[j]].address
                                 # heap[sections[i].symbols[k]].address

\* fromFile has returned and a section holds two lines at different addresses
C8_Witness ==
    /\ result.op = "fromFile"
    /\ pc = "loaded"
    /\ \E i \in 1..Len(sections) :
          /\ Len(sections[i].lines) >= 2
          /\ sections[i].lines[1].address < sections[i].lines[2].address

(***************************************************************************)
(* Round trips through ask_address.                                        *)
(***************************************************************************)
\* a line of sec has the address addr
HasLineAt(sec, addr) == \E k \in 1..Len(sec.lines) : sec.lines[k].address = addr

\* sections[i] is the first section whose range contains addr
FirstContaining(secs, i, addr) ==
    /\ Section_has_address(secs[i], addr)
    /\ \A j \in 1..(i - 1) : ~Section_has_address(secs[j], addr)

\* C9, as stated: for any pc equal to the address of a SourceLine stored in
\* some section, ask_address(pc) returns a record whose address is pc.
C9_StoredLineAddressFound ==
    (/\ result.op = "ask_address"
     /\ \E i \in 1..Len(sections) : HasLineAt(sections[i], result.arg.val))
        => /\ result.ret.tag = "SourceLine"
           /\ result.ret.sl.address = result.arg.val

\* C9, as the code has it: for any pc equal to the address of a SourceLine
\* stored in the first section whose range start <= pc < end contains pc,
\* ask_address(pc) returns a record whose address is pc.
C9_ContainedLineAddressFound ==
    (/\ result.op = "ask_address"
     /\ \E i \in 1..Len(sections) :
           /\ FirstContaining(sections, i, result.arg.val)
           /\ HasLineAt(sections[i], result.arg.val))
        => /\ result.ret.tag = "SourceLine"
           /\ result.ret.sl.address = result.arg.val

\* ask_address has been asked for the address of a line of the first section
\* that contains it, and that section has an entry at a lower address too
C9_Witness ==
    /\ result.op = "ask_address"
    /\ \E i \in 1..Len(sections) :
          /\ FirstContaining(sections, i, result.arg.val)
          /\ HasLineAt(sections[i], result.arg.val)
          /\ \E k \in 1..Len(sections[i].lines) :
                sections[i].lines[k].address < result.arg.val

\* C10: for any symbol name N without a leading underscore that is in some
\* section's symbols, ask_address(ask_symbol(N)) returns a record whose name
\* is N.
C10_SymbolRoundTrip ==
    (/\ result.op = "ask_address_of_symbol"
     /\ Head(result.arg) # "_"
     /\ NamedSymbols(heap, sections, result.arg) # <<>>)
        => /\ result.ret.tag = "SourceLine"
           /\ SourceLine_name(heap, result.ret.sl) = result.arg

(***************************************************************************)
(* relocate on the current placement.                                      *)
(***************************************************************************)
\* the (start, size) of each section, as segments
CurrentSegments(secs) ==
    [i \in 1..Len(secs) |-> Segment(secs[i].start, secs[i].size)]

\* C11: relocate called with the current (start, size) of each section returns
\* True and leaves every section start, symbol address and line address as it
\* was; and a relocate that repeats the segments of the relocate before it
\* changes nothing.
C11_RelocateIdempotent ==
    [][/\ (result'.op = "relocate" /\ result'.arg = CurrentSegments(sections))
            => /\ result'.ret = PyBool(TRUE)
               /\ Placement(heap', sections') = Placement(heap, sections)
       /\ (result.op = "relocate" /\ result'.op = "relocate"
               /\ result'.arg = result.arg)
            => /\ result'.ret = result.ret
               /\ Placement(heap', sections') = Placement(heap, sections)]_vars

\* relocate has returned True, the first section, which holds a symbol and a
\* line, is away from its place in the file, and every section is where the
\* segments of the call put it: the same call can be made again
C11_Witness ==
    /\ result.op = "relocate"
    /\ result.ret = PyBool(TRUE)
    /\ result.arg = CurrentSegments(sections)
    /\ sections # <<>>
    /\ sections[1].start # 0
    /\ sections[1].symbols # <<>>
    /\ sections[1].lines # <<>>


(***************************************************************************)
(* The debugger session: Debugger (debug.py) driving FS-UAE through        *)
(* UaeDebuggerProtocol and UaeProcess (uae.py), started by UaeLaunch.      *)
(***************************************************************************)
MaxBreaks == 2       \* breakpoints created in one session
MaxUnrequested == 1  \* reports the emulator prints without a request
MaxBurst == 2        \* the same, in the sessions that exercise the pump

\* a float, as true division makes it; val is its (whole) value
PyFloat(n) == [tag |-> "float", val |-> n]

\* int(s, 16) for strings over Chars: an optional '-', then hex digits with
\* single underscores allowed between them; anything else is a ValueError
HexDigits == {"0", "1", "2", "c", "F"}

HexDigitVal(c) ==
    CASE c = "c" -> 12 [] c = "F" -> 15 [] OTHER -> Ord(c) - 48

RECURSIVE HexVal(_, _)
HexVal(s, acc) ==
    IF s = <<>> THEN acc
    ELSE IF Head(s) = "_" THEN HexVal(Tail(s), acc)
    ELSE HexVal(Tail(s), 16 * acc + HexDigitVal(Head(s)))

IsHex(ds) ==
    /\ ds # <<>>
    /\ \A i \in 1..Len(ds) :
          \/ ds[i] \in HexDigits
          \/ ds[i] = "_" /\ 1 < i /\ i < Len(ds)
                         /\ ds[i - 1] \in HexDigits /\ ds[i + 1] \in HexDigits

ParseHex_signed(neg, ds) ==
    IF ~IsHex(ds) THEN Raise("ValueError")
    ELSE PyInt(IF neg THEN 0 - HexVal(ds, 0) ELSE HexVal(ds, 0))

ParseHex(s) ==
    IF s # <<>> /\ Head(s) = "-" THEN ParseHex_signed(TRUE, Tail(s))
    ELSE ParseHex_signed(FALSE, s)

\* Debugger.debuginfo: set in __init__ and assigned nowhere else but in
\* do_debuginfo_read, after fetch_segments, which this adapter does not have
debuginfo == None

\* Debugger.address_of with that debuginfo
Debugger_address_of(where) ==
    IF ParseHex(where).tag = "raise" THEN None ELSE ParseHex(where)

\* Debugger.break_lookup: the address asked for, not the BreakPoint
RECURSIVE Debugger_break_lookup(_, _)
Debugger_break_lookup(bps, addr) ==
    IF bps = <<>> THEN None
    ELSE IF PyInt(Head(bps).address) = addr THEN addr
    ELSE Debugger_break_lookup(Tail(bps), addr)

\* the generator unique(): the value it yields after it yielded n (0 before
\* the first); the faulty variant yields its first value again and again
unique_repeating(n) == 1

unique(n) == n + 1

\* BreakPoint(address), with the number n drawn from unique_number
BreakPoint(n, address) == [number |-> n, address |-> address]

(***************************************************************************)
(* What the emulator prints. A report is the text up to a '>' prompt; the  *)
(* lines of a response are those of the reports it is made of.             *)
(*   state    the nine lines of a CPU state, PC = addr                     *)
(*   break    'Breakpoint at ...' and then a CPU state, PC = addr          *)
(*   added    'Breakpoint added'      removed  'Breakpoint removed'        *)
(*   dis      n disassembly lines from addr on, opcodes of oplen bytes     *)
(*   mem      one line of a memory dump at addr                            *)
(*   text     one line of other text  empty    no line at all              *)
(***************************************************************************)
Report(kind, addr, n, oplen) ==
    [kind |-> kind, addr |-> addr, n |-> n, oplen |-> oplen]

Request(cmd, addr, n) == [cmd |-> cmd, addr |-> addr, n |-> n]

StopPCs == {0, 2}

OpLens == {2, 4}

\* columns 8..34 of a memory dump line hold five words
MemOpLen == 10

IsEmpty(rep) == rep.kind = "empty"

\* the reports of a response that have lines
RECURSIVE Lines(_)
Lines(reps) ==
    IF reps = <<>> THEN <<>>
    ELSE IF IsEmpty(Head(reps)) THEN Lines(Tail(reps))
    ELSE <<Head(reps)>> \o Lines(Tail(reps))

RECURSIVE LineCount(_)
LineCount(reps) ==
    IF reps = <<>> THEN 0
    ELSE LineCount(Tail(reps))
         + (CASE Head(reps).kind = "state" -> 9
              [] Head(reps).kind = "break" -> 10
              [] Head(reps).kind = "empty" -> 0
              [] Head(reps).kind = "dis" -> Head(reps).n
              [] OTHER -> 1)

\* UaeDebuggerProtocol._parse_cpu_state: the PC, or what it raises on lines
\* that are not a CPU state
Uae_parse_cpu_state(reps) ==
    IF Lines(reps) = <<>> THEN Raise("IndexError")
    ELSE IF Head(Lines(reps)).kind = "state" THEN PyInt(Head(Lines(reps)).addr)
    ELSE Raise("ValueError")

\* UaeDebuggerProtocol.prologue, after recv: the PC of data['regs']
Uae_prologue(reps) ==
    IF Lines(reps) = <<>> THEN Raise("IndexError")
    ELSE IF Head(Lines(reps)).kind \in {"added", "removed"}
    THEN Raise("IndexError")
    ELSE IF Head(Lines(reps)).kind = "break"
    THEN PyInt(Head(Lines(reps)).addr)
    ELSE Uae_parse_cpu_state(reps)

\* UaeDebuggerProtocol.insert_hwbreak, after recv
Uae_insert_hwbreak(reps) ==
    IF Lines(reps) = <<>> THEN FALSE
    ELSE Head(Lines(reps)).kind = "added"

\* UaeDebuggerProtocol.remove_hwbreak, after recv
Uae_remove_hwbreak(reps) ==
    IF Lines(reps) = <<>> THEN FALSE
    ELSE Head(Lines(reps)).kind = "removed"

\* UaeDebuggerProtocol.disassemble, after recv: whether int(line[:8], 16)
\* accepts every line
Uae_disassemble(reps) ==
    \A i \in 1..Len(reps) : reps[i].kind \in {"dis", "mem", "empty"}

\* DisassemblyLine.next_address of the first line: address + len(opcode) / 2
DisassemblyLine_next_address(reps) ==
    PyFloat(Head(Lines(reps)).addr + Head(Lines(reps)).oplen)

(***************************************************************************)
(* The coroutine Debugger.run. A core is the state it works on; each       *)
(* operator runs the code from one point to the next await that suspends,  *)
(* or to the end of run.                                                   *)
(***************************************************************************)
Pending == [tag |-> "future", done |-> FALSE, lines |-> <<>>]

Completed(reps) == [tag |-> "future", done |-> TRUE, lines |-> reps]

Task(at, addr, end) == [at |-> at, addr |-> addr, end |-> end]

\* suspended in 'await prompt_async(...)' of run
Debugger_prompt(c) == [c EXCEPT !.task = Task("prompt", None, None)]

\* an exception leaves the while loop of run: 'except Exception' logs it and
\* run returns
Debugger_raise(c, exc) ==
    [c EXCEPT !.task = Task("returned", None, None), !.log = exc]

\* UaeProcess.dbg_send
Uae_dbg_send(c, req) == [c EXCEPT !.stdin = Append(@, req)]

\* the % formatting of an address with %x or %X
Formats(addr) == addr.tag = "int"

RECURSIVE Uae_dbg_recv(_, _, _, _)

\* Debugger.break_show without debuginfo: protocol.disassemble(pc, 5)
Debugger_break_show(c, pcv) ==
    Uae_dbg_recv(Uae_dbg_send(c, Request("d", pcv.val, 5)), "show", None, None)

\* Debugger.prologue: protocol.prologue() awaits recv
Debugger_prologue(c) == Uae_dbg_recv(c, "prologue", None, None)

\* Debugger.prologue once protocol.prologue has its lines
Debugger_prologue_parsed(c, pcv) ==
    IF pcv.tag = "raise" THEN Debugger_raise(c, pcv.exc)
    ELSE Debugger_break_show([c EXCEPT !.regs = pcv], pcv)

\* Debugger.do_break_insert, once insert_hwbreak has answered; the faulty
\* variant creates the BreakPoint whatever the answer
Debugger_break_inserted_unconfirmed(c, addr, confirmed) ==
    Debugger_prompt(
        [c EXCEPT !.breakpoints = Append(@, BreakPoint(unique(c.number),
                                                       addr.val)),
                  !.number = unique(@)])

Debugger_break_inserted(c, addr, confirmed) ==
    IF ~confirmed THEN Debugger_prompt(c)
    ELSE Debugger_prompt(
        [c EXCEPT !.breakpoints = Append(@, BreakPoint(unique(c.number),
                                                       addr.val)),
                  !.number = unique(@)])

\* Debugger.do_disassemble_range from 'while addr < end' on
Debugger_disassemble_range(c, addr, end) ==
    IF addr.tag = "None" \/ end.tag = "None" THEN Debugger_raise(c, "TypeError")
    ELSE IF ~(addr.val < end.val) THEN Debugger_prompt(c)
    ELSE IF ~Formats(addr) THEN Debugger_raise(c, "TypeError")
    ELSE Uae_dbg_recv(Uae_dbg_send(c, Request("d", addr.val, 1)),
                      "dr", addr, end)

\* 'line, = ...' and 'addr += line.next_address'
Debugger_disassembled(c, addr, end, reps) ==
    IF ~Uae_disassemble(reps) \/ LineCount(reps) # 1
    THEN Debugger_raise(c, "ValueError")
    ELSE Debugger_disassemble_range(
             c, PyFloat(addr.val + DisassemblyLine_next_address(reps).val), end)

\* the code after 'await self.recv()' returned reps to the task suspended at at
Debugger_resume(c, at, addr, end, reps) ==
    CASE at = "prologue" -> Debugger_prologue_parsed(c, Uae_prologue(reps))
      [] at = "show" ->
            IF Uae_disassemble(reps) THEN Debugger_prompt(c)
            ELSE Debugger_raise(c, "ValueError")
      [] at = "mr" -> Debugger_prompt(c)
      [] at = "b" -> Debugger_break_inserted(c, addr, Uae_insert_hwbreak(reps))
      [] at = "bd" -> Debugger_raise(c, "AttributeError")
      [] at = "dr" -> Debugger_disassembled(c, addr, end, reps)
      [] at = "ir" ->
            IF Uae_parse_cpu_state(reps).tag = "raise"
            THEN Debugger_raise(c, Uae_parse_cpu_state(reps).exc)
            ELSE Debugger_prompt(c)
      [] at = "q" -> Debugger_prompt(c)
      [] at = "raw" -> Debugger_prompt(c)

\* UaeProcess.dbg_recv, called where the task would suspend at at: a future
\* that is done does not suspend the task, a pending one does; either way the
\* task goes on with a fresh future
Uae_dbg_recv(c, at, addr, end) ==
    IF c.stderr.done
    THEN Debugger_resume([c EXCEPT !.stderr = Pending], at, addr, end,
                         c.stderr.lines)
    ELSE [c EXCEPT !.task = Task(at, addr, end)]

\* list.remove(x): the first element equal to x; a BreakPoint has no __eq__
\* and so equals nothing but itself
RECURSIVE List_remove(_, _)
List_remove(l, x) ==
    IF l = <<>> THEN Raise("ValueError")
    ELSE IF Head(l) = x THEN [tag |-> "list", val |-> Tail(l)]
    ELSE IF List_remove(Tail(l), x).tag = "raise" THEN Raise("ValueError")
    ELSE [tag |-> "list", val |-> <<Head(l)>> \o List_remove(Tail(l), x).val]

\* Debugger.do_cont and do_step
Debugger_do_cont(c) == Debugger_prologue(Uae_dbg_send(c, Request("g", 0, 0)))

Debugger_do_step(c) == Debugger_prologue(Uae_dbg_send(c, Request("t", 0, 0)))

\* Debugger.do_quit
Debugger_do_quit(c) ==
    Uae_dbg_recv(Uae_dbg_send(c, Request("q", 0, 0)), "q", None, None)

\* Debugger.do_memory_read
Debugger_do_memory_read(c, addr) ==
    IF ~Formats(addr) THEN Debugger_raise(c, "TypeError")
    ELSE Uae_dbg_recv(Uae_dbg_send(c, Request("m", addr.val, 1)),
                      "mr", addr, None)

\* Debugger.do_break_insert
Debugger_do_break_insert(c, addr) ==
    IF Truthy(Debugger_break_lookup(c.breakpoints, addr)) THEN Debugger_prompt(c)
    ELSE IF ~Formats(addr) THEN Debugger_raise(c, "TypeError")
    ELSE Uae_dbg_recv(Uae_dbg_send(c, Request("f", addr.val, 0)),
                      "b", addr, None)

\* Debugger.do_break_remove
Debugger_do_break_remove(c, addr) ==
    IF ~Truthy(Debugger_break_lookup(c.breakpoints, addr))
    THEN Debugger_prompt(c)
    ELSE IF List_remove(c.breakpoints,
                        Debugger_break_lookup(c.breakpoints, addr)).tag = "raise"
    THEN Debugger_raise(c, "ValueError")
    ELSE Uae_dbg_recv(
             Uae_dbg_send(
                 [c EXCEPT !.breakpoints =
                      List_remove(@, Debugger_break_lookup(@, addr)).val],
                 Request("f", addr.val, 0)),
             "bd", addr, None)

\* Debugger.do_command on the fields fs of the line
Debugger_do_command(c, fs) ==
    IF fs = <<>> THEN Debugger_prompt(c)
    ELSE IF fs[1] \in {"b", "bd", "Zf"} /\ Len(fs) < 2
    THEN Debugger_raise(c, "IndexError")
    ELSE IF fs[1] \in {"mr", "dr"} /\ Len(fs) < 3
    THEN Debugger_raise(c, "IndexError")
    ELSE CASE fs[1] = "mr" ->
                Debugger_do_memory_read(c, Debugger_address_of(fs[2]))
           [] fs[1] = "b" ->
                Debugger_do_break_insert(c, Debugger_address_of(fs[2]))
           [] fs[1] = "bd" ->
                Debugger_do_break_remove(c, Debugger_address_of(fs[2]))
           [] fs[1] = "bl" -> Debugger_prompt(c)
           [] fs[1] = "dr" ->
                Debugger_disassemble_range(c, Debugger_address_of(fs[2]),
                                           Debugger_address_of(fs[3]))
           [] fs[1] = "c" -> Debugger_do_cont(c)
           [] fs[1] = "s" -> Debugger_do_step(c)
           [] fs[1] = "ir" ->
                Uae_dbg_recv(Uae_dbg_send(c, Request("r", 0, 0)),
                             "ir", None, None)
           [] fs[1] = "q" -> Debugger_do_quit(c)
           [] fs[1] = "Zf" -> Debugger_raise(c, "CommandNotSupported")
           [] fs[1] = "!" -> Debugger_break_show(c, c.regs)
           [] fs[1] = ":" ->
                Uae_dbg_recv(Uae_dbg_send(c, Request("raw", 0, 0)),
                             "raw", None, None)
           [] OTHER -> Debugger_prompt(c)

\* Debugger.run when the task is cancelled at an await: 'except
\* asyncio.CancelledError: pass'; the faulty variant has no such clause
Debugger_cancelled_propagating(c) ==
    [c EXCEPT !.task = Task("cancelled", None, None)]

Debugger_cancelled(c) == [c EXCEPT !.task = Task("returned", None, None)]

(***************************************************************************)
(* UaeProcess.pipe_data_received for the error stream. A chunk either ends *)
(* with the '>' that ends a report, or holds text that does not.           *)
(***************************************************************************)
Chunk(final, rep) == [final |-> final, rep |-> rep]

Partial == Chunk(FALSE, Report("empty", 0, 0, 0))

\* self._stderr += data; text without '>' runs into the text before it
Uae_buffered(buf, data) ==
    IF ~data.final /\ buf # <<>> /\ ~buf[Len(buf)].final THEN buf
    ELSE Append(buf, data)

\* the reports whose lines text.splitlines() gives
RECURSIVE Uae_lines(_)
Uae_lines(buf) ==
    IF buf = <<>> THEN <<>>
    ELSE IF Head(buf).final THEN <<Head(buf).rep>> \o Uae_lines(Tail(buf))
    ELSE Uae_lines(Tail(buf))

\* Future.set_result: InvalidStateError on a future that is done
Future_set_result(fut, reps) ==
    IF fut.done THEN Raise("InvalidStateError") ELSE Completed(reps)

\* pipe_data_received(2, data) on the buffer buf and the future fut
Uae_pipe_data_received(fut, buf, data) ==
    IF ~data.final
    THEN [stderr |-> fut, buf |-> Uae_buffered(buf, data), pump |-> ""]
    ELSE IF Future_set_result(fut, Uae_lines(Uae_buffered(buf, data))).tag
                = "raise"
    THEN [stderr |-> fut, buf |-> Uae_buffered(buf, data),
          pump |-> "InvalidStateError"]
    ELSE [stderr |-> Future_set_result(fut, Uae_lines(Uae_buffered(buf, data))),
          buf |-> <<>>, pump |-> ""]

\* what the emulator may print for a request
Answers(req) ==
    CASE req.cmd = "f" ->
            {Report("added", 0, 0, 0), Report("removed", 0, 0, 0),
             Report("empty", 0, 0, 0)}
      [] req.cmd \in {"g", "t"} ->
            {Report(k, a, 0, 0) : k \in {"state", "break"}, a \in StopPCs}
      [] req.cmd = "r" -> {Report("state", a, 0, 0) : a \in StopPCs}
      [] req.cmd = "d" -> {Report("dis", req.addr, req.n, l) : l \in OpLens}
      [] req.cmd = "m" -> {Report("mem", req.addr, 1, MemOpLen)}
      [] req.cmd = "raw" -> {Report("text", 0, 0, 0)}
      [] OTHER -> {}

(***************************************************************************)
(* The session. It starts when UaeLaunch has started the emulator and the  *)
(* task, and the task waits in the prologue for the first stop report.     *)
(* The emulator answers the requests in the order they were written to it, *)
(* one report for each, and may stop and report without a request.         *)
(***************************************************************************)
Tokens == {<<"0">>, <<"2">>, <<"k">>}

\* the tokens that end a range: these, and an address beyond every instruction
Ends == Tokens \cup {<<"F">>}

UserLines ==
    {<<op, t>> : op \in {"b", "bd"}, t \in Tokens}
        \cup {<<"mr", t, <<"1">>>> : t \in Tokens}
        \cup {<<"dr", t, u>> : t \in Tokens, u \in Ends}
        \cup {<<op>> : op \in {"bl", "c", "s", "ir", "q", "!", ":", "?", "b"}}
        \cup {<<"Zf", <<"k">>>>, <<>>}

Core ==
    [task |-> task, breakpoints |-> breakpoints, number |-> number,
     regs |-> regs, log |-> log, stdin |-> stdin, stderr |-> stderr]

\* what a step did: the line it executed and the await the task was
\* suspended in
Step(step, fs) == [step |-> step, fs |-> fs, at |-> task.at, recv |-> <<>>]

\* a step of the task, with the response that recv handed to it in this step
\* (a task that finds the future done takes its result and leaves a fresh one)
TaskStep(step, fs) ==
    [Step(step, fs) EXCEPT
        !.recv = IF stderr.done /\ ~stderr'.done THEN <<stderr.lines>> ELSE <<>>]

Becomes(c) ==
    /\ task' = c.task
    /\ breakpoints' = c.breakpoints
    /\ number' = c.number
    /\ regs' = c.regs
    /\ log' = c.log
    /\ stdin' = c.stdin
    /\ stderr' = c.stderr

Suspended == task.at \notin {"none", "returned", "cancelled"}

Awaiting == Suspended /\ task.at # "prompt"

\* the task takes a step only until UaeLaunch has cancelled it
Runnable == emulator.process # "closed"

\* the event loop wakes a task whose future is done before it reads the pipe
\* again
PipeReadable == emulator.process = "running" /\ ~(Awaiting /\ stderr.done)

SessionInit ==
    /\ pc = "new"
    /\ sections = <<>>
    /\ heap = <<>>
    /\ result = [op |-> "DebugInfo", arg |-> None, ret |-> None]
    /\ task = Task("prologue", None, None)
    /\ breakpoints = <<>>
    /\ number = 0
    /\ regs = None
    /\ log = ""
    /\ stdin = <<>>
    /\ stderr = Pending
    /\ stderr_buf = <<>>
    /\ pump = ""
    /\ emulator = [process |-> "starting", unrequested |-> 0]
    /\ last = Step("launch", <<>>)

\* prompt_async returns a line and run executes it
UserLine(fs) ==
    /\ task.at = "prompt"
    /\ Runnable
    /\ (fs # <<>> /\ fs[1] = "b") => number < MaxBreaks
    /\ Becomes(Debugger_do_command(Core, fs))
    /\ last' = TaskStep("line", fs)
    /\ UNCHANGED <<stderr_buf, pump, emulator>>
    /\ UNCHANGED vars

\* prompt_async raises EOFError
UserEOF ==
    /\ task.at = "prompt"
    /\ Runnable
    /\ Becomes(Debugger_do_cont(Core))
    /\ last' = TaskStep("eof", <<>>)
    /\ UNCHANGED <<stderr_buf, pump, emulator>>
    /\ UNCHANGED vars

\* prompt_async raises KeyboardInterrupt
UserInterrupt ==
    /\ task.at = "prompt"
    /\ Runnable
    /\ Becomes(Debugger_do_quit(Core))
    /\ last' = TaskStep("interrupt", <<>>)
    /\ UNCHANGED <<stderr_buf, pump, emulator>>
    /\ UNCHANGED vars

\* the task wakes up with the result of the future it awaited
Resume ==
    /\ Awaiting
    /\ Runnable
    /\ stderr.done
    /\ Becomes(Debugger_resume([Core EXCEPT !.stderr = Pending], task.at,
                               task.addr, task.end, stderr.lines))
    /\ last' = TaskStep("resume", <<>>)
    /\ UNCHANGED <<stderr_buf, pump, emulator>>
    /\ UNCHANGED vars

\* the pipe delivers data
PipeData(r, data) ==
    /\ stderr' = r.stderr
    /\ stderr_buf' = r.buf
    /\ pump' = IF r.pump # "" THEN r.pump ELSE pump
    /\ last' = [step |-> IF r.pump # "" THEN "pump raised" ELSE "pump",
                fs |-> <<>>, at |-> "none", recv |-> <<>>]
    /\ UNCHANGED <<task, breakpoints, number, regs, log>>
    /\ UNCHANGED vars

\* the emulator, started with its console debugger on, stops and reports
Started ==
    /\ emulator.process = "starting"
    /\ \E a \in StopPCs :
          PipeData(Uae_pipe_data_received(stderr, stderr_buf,
                                          Chunk(TRUE, Report("state", a, 0, 0))),
                   Chunk(TRUE, Report("state", a, 0, 0)))
    /\ emulator' = [emulator EXCEPT !.process = "running"]
    /\ UNCHANGED stdin

\* the emulator answers the oldest request
Answer ==
    /\ PipeReadable
    /\ stdin # <<>>
    /\ \E rep \in Answers(Head(stdin)) :
          PipeData(Uae_pipe_data_received(stderr, stderr_buf, Chunk(TRUE, rep)),
                   Chunk(TRUE, rep))
    /\ stdin' = Tail(stdin)
    /\ UNCHANGED emulator

\* the emulator stops without a request (a forwarded SIGINT) and reports
Unrequested(max) ==
    /\ PipeReadable
    /\ emulator.unrequested < max
    /\ \E a \in StopPCs :
          PipeData(Uae_pipe_data_received(stderr, stderr_buf,
                                          Chunk(TRUE, Report("state", a, 0, 0))),
                   Chunk(TRUE, Report("state", a, 0, 0)))
    /\ emulator' = [emulator EXCEPT !.unrequested = @ + 1]
    /\ UNCHANGED stdin

\* the first part of a report arrives on its own
PartialData ==
    /\ PipeReadable
    /\ IF stderr_buf = <<>> THEN TRUE ELSE stderr_buf[Len(stderr_buf)].final
    /\ PipeData(Uae_pipe_data_received(stderr, stderr_buf, Partial), Partial)
    /\ UNCHANGED <<stdin, emulator>>

\* the emulator process ends: on the request 'q', or by itself
Exit ==
    /\ emulator.process \in {"starting", "running"}
    /\ emulator' = [emulator EXCEPT !.process = "exited"]
    /\ stdin' = IF stdin # <<>> /\ Head(stdin).cmd = "q" THEN Tail(stdin)
                ELSE stdin
    /\ last' = Step("exit", <<>>)
    /\ UNCHANGED <<task, breakpoints, number, regs, log, stderr, stderr_buf,
                   pump>>
    /\ UNCHANGED vars

\* UaeProcess.process_exited
ProcessExited ==
    /\ emulator.process = "exited"
    /\ emulator' = [emulator EXCEPT !.process = "reaped"]
    /\ last' = Step("process_exited", <<>>)
    /\ UNCHANGED <<task, breakpoints, number, regs, log, stdin, stderr,
                   stderr_buf, pump>>
    /\ UNCHANGED vars

\* UaeLaunch after 'await exited': uae_transport.close(); debug_task.cancel()
LaunchResume ==
    /\ emulator.process = "reaped"
    /\ emulator' = [emulator EXCEPT !.process = "closed"]
    /\ last' = Step("cancel", <<>>)
    /\ UNCHANGED <<task, breakpoints, number, regs, log, stdin, stderr,
                   stderr_buf, pump>>
    /\ UNCHANGED vars

\* the task gets its CancelledError at the await it is suspended in
Cancelled ==
    /\ emulator.process = "closed"
    /\ Suspended
    /\ Becomes(Debugger_cancelled(Core))
    /\ last' = TaskStep("cancelled", <<>>)
    /\ UNCHANGED <<stderr_buf, pump, emulator>>
    /\ UNCHANGED vars

SessionNext ==
    \/ Started
    \/ \E fs \in UserLines : UserLine(fs)
    \/ UserEOF
    \/ UserInterrupt
    \/ Resume
    \/ Answer
    \/ Unrequested(MaxUnrequested)
    \/ PartialData
    \/ Exit
    \/ ProcessExited
    \/ LaunchResume
    \/ Cancelled

Session == SessionInit /\ [][SessionNext]_dvars

\* The sessions that exercise the pump: the user only continues, steps or
\* asks for the registers, and the emulator may report more often without a
\* request.
PumpLines == {<<"c">>, <<"s">>, <<"ir">>}

PumpNext ==
    \/ Started
    \/ \E fs \in PumpLines : UserLine(fs)
    \/ UserEOF
    \/ UserInterrupt
    \/ Resume
    \/ Answer
    \/ Unrequested(MaxBurst)
    \/ PartialData
    \/ Exit
    \/ ProcessExited
    \/ LaunchResume
    \/ Cancelled

Pump == SessionInit /\ [][PumpNext]_dvars

\* the event loop runs every callback that is ready
SessionFair ==
    /\ Session
    /\ WF_dvars(Resume)
    /\ WF_dvars(ProcessExited)
    /\ WF_dvars(LaunchResume)
    /\ WF_dvars(Cancelled)

(***************************************************************************)
(* Properties of the breakpoint registry.                                  *)
(***************************************************************************)
\* the registry holds a breakpoint at the address a
Registered(bps, a) == \E i \in 1..Len(bps) : PyInt(bps[i].address) = a

\* the breakpoints of the registry at other addresses than a, in order
RECURSIVE Others(_, _)
Others(bps, a) ==
    IF bps = <<>> THEN <<>>
    ELSE IF PyInt(Head(bps).address) = a THEN Others(Tail(bps), a)
    ELSE <<Head(bps)>> \o Others(Tail(bps), a)

\* the step executes the line 'op token'
Executes(op) ==
    /\ last'.step = "line"
    /\ Len(last'.fs) = 2
    /\ last'.fs[1] = op

\* C12: when the line 'bd A' is executed with a breakpoint registered at A,
\* the registry then holds no breakpoint at A, holds the breakpoints at other
\* addresses as before, and the debugger has not stopped executing commands.
C12_RemoveUnregisters ==
    [][(Executes("bd")
            /\ Registered(breakpoints, Debugger_address_of(last'.fs[2])))
          => /\ ~Registered(breakpoints', Debugger_address_of(last'.fs[2]))
             /\ breakpoints'
                  = Others(breakpoints, Debugger_address_of(last'.fs[2]))
             /\ task'.at # "returned"]_dvars

\* no two breakpoints of the registry have the same address
NoDuplicates(bps) ==
    \A i, j \in 1..Len(bps) : bps[i].address = bps[j].address => i = j

\* C13: the registry never holds two breakpoints with the same address, and
\* executing 'b A' with a breakpoint registered at A (address 0 included)
\* leaves the registry and the numbering as they were and sends no request.
C13_NoDuplicateInsert ==
    [][/\ NoDuplicates(breakpoints')
       /\ (Executes("b")
               /\ Registered(breakpoints, Debugger_address_of(last'.fs[2])))
             => /\ breakpoints' = breakpoints
                /\ number' = number
                /\ stdin' = stdin]_dvars

\* the step hands do_break_insert the answer to its insert_hwbreak
InsertAnswered ==
    /\ last'.recv # <<>>
    /\ \/ last'.step = "resume" /\ last'.at = "b"
       \/ Executes("b")

\* C14: the registry changes only by one new BreakPoint, in a step that hands
\* do_break_insert an answer whose first line is 'Breakpoint added'; a number
\* is drawn only for such a BreakPoint; and when the answer is anything else
\* the registry and the numbering stay as they were.
C14_InsertOnlyWhenConfirmed ==
    [][/\ breakpoints' # breakpoints
            => /\ InsertAnswered
               /\ Uae_insert_hwbreak(last'.recv[1])
               /\ Len(breakpoints') = Len(breakpoints) + 1
               /\ SubSeq(breakpoints', 1, Len(breakpoints)) = breakpoints
       /\ number' # number => breakpoints' # breakpoints
       /\ (InsertAnswered /\ ~Uae_insert_hwbreak(last'.recv[1]))
            => /\ breakpoints' = breakpoints
               /\ number' = number]_dvars

C14_Witness ==
    /\ last.step = "resume"
    /\ last.at = "b"
    /\ ~Uae_insert_hwbreak(last.recv[1])
    /\ task.at = "prompt"
    /\ breakpoints # <<>>

\* the numbers of the registry grow along it
Increasing(bps) ==
    \A i, j \in 1..Len(bps) : i < j => bps[i].number < bps[j].number

\* the breakpoints of bps that old does not hold
Created(old, bps) ==
    {bps[i] : i \in {j \in 1..Len(bps) : \A k \in 1..Len(old) : old[k] # bps[j]}}

\* C15: the last number drawn never goes down, every breakpoint created in a
\* step has a number greater than the last number drawn before that step (and
\* so than the number of every breakpoint created earlier, registered or
\* not), and the numbers of the registry grow along it.
C15_NumbersIncrease ==
    [][/\ number' >= number
       /\ \A bp \in Created(breakpoints, breakpoints') :
             number < bp.number /\ bp.number <= number'
       /\ Increasing(breakpoints')]_dvars

C15_Witness ==
    /\ Len(breakpoints) = 2
    /\ breakpoints[1].number = 1
    /\ breakpoints[2].number = 2
    /\ last.step = "resume"
    /\ last.at = "b"

(***************************************************************************)
(* Properties of the command loop.                                         *)
(***************************************************************************)
\* C16: when the execution of a user line raises an exception, run does not
\* return: the task goes on to the next await of the command loop.
C16_ExceptionKeepsLoop ==
    [][(last'.step = "line" /\ log' # log) => task'.at # "returned"]_dvars

\* the step executes a line of b, bd, mr or dr with a token that resolves to
\* no address
ExecutesUnresolved ==
    /\ last'.step = "line"
    /\ Len(last'.fs) >= 2
    /\ last'.fs[1] \in {"b", "bd", "mr", "dr"}
    /\ \/ Debugger_address_of(last'.fs[2]) = None
       \/ last'.fs[1] = "dr" /\ Debugger_address_of(last'.fs[3]) = None

\* C17: a line of b, bd, mr or dr whose token resolves to no address sends no
\* request, leaves the registry as it was, and leaves the task at the prompt
\* for the next line.
C17_UnresolvedIsNoOp ==
    [][ExecutesUnresolved
          => /\ stdin' = stdin
             /\ breakpoints' = breakpoints
             /\ task'.at = "prompt"]_dvars

\* C18: at most one request is without its answer from the emulator at any
\* time, and while the task waits for the next user line none is.
C18_StrictlySerial ==
    /\ Len(stdin) <= 1
    /\ task.at = "prompt" => stdin = <<>>

(***************************************************************************)
(* Properties of the I/O pump and of the end of the session.               *)
(***************************************************************************)
\* C19: pipe_data_received never calls set_result on a future that is done:
\* no completion of a response raises InvalidStateError.
C19_CompletesPendingFuture == pump # "InvalidStateError"

\* C20: once the emulator process has exited, the exited future completes,
\* UaeLaunch cancels the task, and run returns: the task ends neither
\* cancelled nor with an exception of its own.
C20_ExitEndsTask ==
    (emulator.process = "exited")
        ~> (emulator.process = "closed" /\ task.at = "returned")

C20_Witness ==
    /\ emulator.process = "closed"
    /\ task.at = "returned"
    /\ last.step = "cancelled"
    /\ last.at = "b"

(***************************************************************************)
(* Claims about what fromFile builds. result.arg is the executable that    *)
(* the last fromFile read.                                                 *)
(***************************************************************************)
\* the sections and the heap as the loop over the hunks leaves them, before
\* any Section.cleanup
Built(executable) == Hunks(FromFile_start, executable)

Loaded == result.op = "fromFile" /\ pc = "loaded"

\* the symbols given to section i in (address, name) order, before cleanup
SymbolsBefore(b, i) == SortedSymbols(b.heap, b.sections[i].symbols)

IsIn(x, seq) == \E k \in 1..Len(seq) : seq[k] = x

\* the next symbol in order is at the same address and is named '_' + name
UnderscorePair(h, before, j) ==
    /\ j < Len(before)
    /\ h[before[j + 1]].address = h[before[j]].address
    /\ h[before[j + 1]].name = <<"_">> \o h[before[j]].name

\* C21: Section.cleanup drops a symbol only when the next symbol in
\* (address, name) order has the same address and the name '_' + the dropped
\* symbol's name; two symbols at one address whose names are not related in
\* this way both remain in the section.
C21_DropsOnlyUnderscorePair ==
    Loaded =>
        \A i \in 1..Len(sections) :
            \A j \in 1..Len(SymbolsBefore(Built(result.arg), i)) :
                ~IsIn(SymbolsBefore(Built(result.arg), i)[j], sections[i].symbols)
                    => UnderscorePair(Built(result.arg).heap,
                                      SymbolsBefore(Built(result.arg), i), j)

\* every line of every section refers to a symbol of its own section
LineSymbolsInSection(secs) ==
    \A i \in 1..Len(secs) :
        \A k \in 1..Len(secs[i].lines) :
            IsIn(secs[i].lines[k].symbol, secs[i].symbols)

\* C22: after fromFile, and after any later relocate, the symbol referenced by
\* every SourceLine of a section is an element of that section's symbols
\* list, so a relocate that succeeds shifts the line and its symbol together
\* and leaves the line's offset (address minus symbol address) unchanged.
C22_LineSymbolInSection ==
    [][pc' = "loaded" =>
          /\ LineSymbolsInSection(sections')
          /\ (result'.op = "relocate" /\ result'.ret = PyBool(TRUE)) =>
                \A i \in 1..Len(sections) :
                    \A k \in 1..Len(sections[i].lines) :
                        SourceLine_offset(heap', sections'[i].lines[k])
                            = SourceLine_offset(heap, sections[i].lines[k])]_vars

\* the stabs of the DEBUG hunk of an executable of Executables (its last hunk)
DebugStabs(executable) ==
    IF executable # <<>> /\ executable[Len(executable)].type = "HUNK_DEBUG"
    THEN executable[Len(executable)].data
    ELSE <<>>

\* stab j is an SLINE of the function that the FUN stab i opens
LineOfFunction(stabs, i, j) ==
    /\ i < j
    /\ stabs[i].type = "FUN"
    /\ stabs[j].type = "SLINE"
    /\ \A k \in (i + 1)..(j - 1) : stabs[k].type # "FUN"

\* some section holds a line made from the SLINE stab sl whose symbol is the
\* one made from the FUN stab fun
BoundTo(h, secs, sl, fun) ==
    \E i \in 1..Len(secs) :
        \E k \in 1..Len(secs[i].lines) :
            /\ secs[i].lines[k].address = sl.value
            /\ secs[i].lines[k].line = sl.desc
            /\ h[secs[i].lines[k].symbol]
                   = Symbol(fun.value, Parser_call(StabInfoParser, fun.str).val.name)

\* C23: the SLINE stabs that follow a FUN stab, up to the next FUN stab,
\* produce SourceLines that reference the Symbol created for that FUN stab.
C23_LinesFollowTheirFunction ==
    Loaded =>
        \A i, j \in 1..Len(DebugStabs(result.arg)) :
            LineOfFunction(DebugStabs(result.arg), i, j)
                => BoundTo(heap, sections, DebugStabs(result.arg)[j],
                           DebugStabs(result.arg)[i])

\* the name equals the line's name, or equals it apart from one leading
\* underscore
CommonRelated(name, el_name) ==
    name = el_name \/ name = <<"_">> \o el_name

\* the section holds the line that the matching makes for the symbol r and the
\* COMMON line el
HasCommonLine(h, sec, r, el) ==
    IsIn(SourceLine(h[r].address, el.path, el.line, r), sec.lines)

\* C24: COMMON matching in Section.cleanup renames a section symbol to the
\* COMMON line's name and adds a SourceLine for it exactly when the symbol's
\* name equals the line's name or equals it apart from one leading underscore;
\* a symbol whose name differs in any other way is neither renamed nor given a
\* line.
C24_CommonMatchesUnderscoreOnly ==
    Loaded =>
        \A i \in 1..Len(sections) :
            \A n \in 1..Len(sections[i].symbols) :
                \A e \in 1..Len(Built(result.arg).common.lines) :
                    LET r == sections[i].symbols[n]
                        el == Built(result.arg).common.lines[e]
                        before == Built(result.arg).heap
                    IN  IF CommonRelated(before[r].name, before[el.symbol].name)
                        THEN /\ heap[r].name = before[el.symbol].name
                             /\ HasCommonLine(heap, sections[i], r, el)
                        ELSE /\ heap[r].name = before[r].name
                             /\ ~HasCommonLine(heap, sections[i], r, el)

(***************************************************************************)
(* ask_address over all sections.                                          *)
(***************************************************************************)
\* the addresses of the lines and symbols of sec that are not above addr
Candidates(h, sec, addr) ==
    {sec.lines[k].address : k \in 1..Len(sec.lines)}
        \cup {h[sec.symbols[k]].address : k \in 1..Len(sec.symbols)}

CandidatesUpTo(h, sec, addr) == {x \in Candidates(h, sec, addr) : x <= addr}

\* sections[i] is the first section that contains addr and holds a line or a
\* symbol at or below it
FirstWithCandidate(h, secs, i, addr) ==
    /\ Section_has_address(secs[i], addr)
    /\ CandidatesUpTo(h, secs[i], addr) # {}
    /\ \A j \in 1..(i - 1) :
          ~(Section_has_address(secs[j], addr)
                /\ CandidatesUpTo(h, secs[j], addr) # {})

\* C25: ask_address(pc) returns None when no section contains pc under the
\* half-open test start <= pc < start + size; when a section contains pc and
\* holds a line or symbol with address <= pc, the result is taken from the
\* first such section in declaration order and its address is the greatest
\* address <= pc among that section's lines and symbols.
C25_GreatestAtOrBelow ==
    result.op = "ask_address" =>
        /\ (\A i \in 1..Len(sections) :
                ~(sections[i].start <= result.arg.val
                      /\ result.arg.val < sections[i].start + sections[i].size))
              => result.ret = None
        /\ \A i \in 1..Len(sections) :
              FirstWithCandidate(heap, sections, i, result.arg.val)
                  => /\ result.ret.tag = "SourceLine"
                     /\ OfSection(heap, sections[i], result.ret.sl)
                     /\ result.ret.sl.address
                            \in CandidatesUpTo(heap, sections[i], result.arg.val)
                     /\ \A x \in CandidatesUpTo(heap, sections[i], result.arg.val) :
                           x <= result.ret.sl.address

(***************************************************************************)
(* Debugger.do_debuginfo_read, from the call of relocate on.               *)
(***************************************************************************)
\* 'if debuginfo.relocate(segments): self.debuginfo = debuginfo': the
\* DebugInfo just relocated becomes the debugger's
Debugger_installs ==
    result.op = "relocate" /\ result.ret = PyBool(TRUE)

GrammarError(s) ==
    /\ s.type \in {"LSYM", "RSYM", "PSYM"}
    /\ s.str # <<>>
    /\ s.str[Len(s.str)] # "\\"
    /\ Parser_call(StabInfoParser, s.str).exc = "ValueError"

\* seq without its k-th element
Without(seq, k) == SubSeq(seq, 1, k - 1) \o SubSeq(seq, k + 1, Len(seq))

\* the executable without the k-th stab of its DEBUG hunk
WithoutStab(executable, k) ==
    [executable EXCEPT ![Len(executable)].data = Without(@, k)]

\* C29: a stab-string grammar error on an LSYM, RSYM or PSYM stab skips only
\* that stab: the remaining stabs of the DEBUG hunk are still processed, and
\* the sections, symbols and lines built are the same as if the failing stab
\* had been absent.
C29_GrammarErrorSkipsOneStab ==
    result.op = "fromFile" =>
        \A k \in 1..Len(DebugStabs(result.arg)) :
            GrammarError(DebugStabs(result.arg)[k])
                => /\ result.ret
                          = IF DebugInfo_fromFile(WithoutStab(result.arg, k)).exc = ""
                            THEN None
                            ELSE Raise(DebugInfo_fromFile(
                                           WithoutStab(result.arg, k)).exc)
                   /\ sections = DebugInfo_fromFile(WithoutStab(result.arg, k)).sections
                   /\ heap = DebugInfo_fromFile(WithoutStab(result.arg, k)).heap

(***************************************************************************)
(* Claims about the commands that run the program and read its code.       *)
(***************************************************************************)
\* the task, waiting in do_disassemble_range, wakes up with one disassembly
\* line
Disassembled ==
    /\ task.at = "dr"
    /\ last'.step = "resume"
    /\ stderr.done
    /\ Len(stderr.lines) = 1
    /\ stderr.lines[1].kind = "dis"
    /\ stderr.lines[1].n = 1

\* the address after the line: its address plus the bytes of its opcode
AfterLine(line) == line.addr + line.oplen

\* C27: dr A B disassembles consecutive instructions: every request after the
\* first is at the previous line's next_address (its address plus half the
\* length of its hex opcode string), and the command stops as soon as that
\* address is >= B.
C27_DisassemblesConsecutively ==
    [][Disassembled =>
          IF AfterLine(stderr.lines[1]) >= task.end.val
          THEN task'.at = "prompt"
          ELSE /\ task'.at = "dr"
               /\ stdin' = Append(stdin,
                                  Request("d", AfterLine(stderr.lines[1]), 1))]_dvars


\* the step executes a cont or a step: the line 'c' or 's', or EOF at the
\* prompt
Continues ==
    \/ last'.step = "eof"
    \/ last'.step = "line" /\ last'.fs \in {<<"c">>, <<"s">>}

\* the response is the disassembly of the code at pcv
ShowsLocation(reps, pcv) ==
    /\ reps # <<>>
    /\ \A i \in 1..Len(reps) : reps[i].kind = "dis" /\ reps[i].addr = pcv.val

\* C26: at startup and after every cont or step (the implicit continue on
\* EOF included) the prologue runs before the next command is read: the task
\* waits for the emulator's stop report, stores the reported registers, and
\* shows the stop location for the PC of exactly those registers.
C26_PrologueBeforeNextCommand ==
    [][/\ Continues => task'.at = "prologue"
       /\ (task.at = "prologue" /\ last'.step = "resume"
              /\ Uae_prologue(stderr.lines).tag = "int")
             => /\ regs' = Uae_prologue(stderr.lines)
                /\ task'.at = "show"
                /\ stdin' = Append(stdin, Request("d", regs'.val, 5))
       /\ (task.at = "show" /\ last'.step = "resume")
             => /\ ShowsLocation(stderr.lines, regs)
                /\ task'.at = "prompt"]_dvars

\* the kinds of report the emulator prints for the request the task awaits
\* the answer of at at
AnswerKinds(at) ==
    CASE at = "prologue" -> {"state", "break"}
      [] at \in {"show", "dr"} -> {"dis"}
      [] at = "mr" -> {"mem"}
      [] at \in {"b", "bd"} -> {"added", "removed", "empty"}
      [] at = "ir" -> {"state"}
      [] at = "raw" -> {"text"}
      [] OTHER -> {}

\* C30: every response handed to the core by recv is the emulator output
\* produced for the most recent request the core sent: recv never returns
\* at once, in the step that sent the request, a report that was there before
\* (one the emulator printed while the core waited for user input), and the
\* response a waiting task wakes up with is of the kind its request asks for
\* (responses do not lag one request behind).
C30_ResponseForLastRequest ==
    last.recv # <<>> =>
        /\ last.step = "resume"
        /\ \A i \in 1..Len(last.recv[1]) :
              last.recv[1][i].kind \in AnswerKinds(last.at)

====
